---------------------------- MODULE Spec2Model ----------------------------
(***************************************************************************)
(* Model of contract-deployer: the layered Environment (environment.rs),   *)
(* the configuration lookups (config.rs) and the deployment workflow of    *)
(* ContractDeployer (deployer.rs).                                         *)
(*                                                                         *)
(* Strings are sequences of one-character strings, so that trimming,       *)
(* searching and splicing are computed the way the Rust code computes      *)
(* them.  Option<T> is a sequence: None is empty, Some(x) holds x.         *)
(***************************************************************************)
EXTENDS Integers, Sequences, FiniteSets, TLC

VARIABLES
    config,     \* DeploymentConfig held by ContractDeployer (immutable)
    penv,       \* the process environment, std::env::vars()
    cwd,        \* the current process directory
    dirs,       \* directories that exist on disk
    vars,       \* Environment.vars
    ctx,        \* DeploymentContext, None until prepared
    pc,         \* position in deploy() / expand_variables()
    outcome,    \* "running", "Succeeded" or "Failed"
    error,      \* context message of the error deploy() returned
    trace,      \* side effects performed so far, in order
    text,       \* expand_variables: the argument
    result,     \* expand_variables: the local `result`
    forge_cmd,  \* the Command built by build_forge_command, None before
    disk,       \* the environment files on disk, by full path
    extra_args, \* the pass-through arguments given to deploy()
    printed,    \* the deployment-info block and the echoed command
    cli_args,   \* the parsed command line, cli::Args in main()
    required    \* validate_required: the argument `required_vars`

allvars == <<config, penv, cwd, dirs, vars, ctx, pc, outcome, error, trace,
             text, result, forge_cmd, disk, extra_args, printed, cli_args,
             required>>

\* Option<T>
None == << >>
Some(x) == <<x>>
IsSome(o) == Len(o) = 1
IsNone(o) == Len(o) = 0
Unwrap(o) == o[1]

\* the error deploy() returns: its context message and what it names
NoError == [msg |-> "", arg |-> << >>]

\* cli::Args with no option given (the configuration path is fixed)
NoArgs == [skip_confirmation |-> FALSE, script |-> None, network |-> None]

(***************************************************************************)
(* Bounds of the model.                                                    *)
(***************************************************************************)
MaxTemplateLen == 6    \* longest template drawn for expand_variables
MaxResultLen == 8      \* expand_variables stops being followed past this
MaxFileLines == 2      \* most lines of a drawn environment file

(***************************************************************************)
(* str helpers: the std operations the code calls.                         *)
(***************************************************************************)
EmptyStr == << >>

\* char::is_whitespace, on the characters the model draws
Whitespace == {" ", "\n", "\t", "\r"}

RECURSIVE TrimStartIn(_, _)
TrimStartIn(s, set) ==
    IF s # << >> /\ Head(s) \in set THEN TrimStartIn(Tail(s), set) ELSE s

RECURSIVE TrimEndIn(_, _)
TrimEndIn(s, set) ==
    IF s # << >> /\ s[Len(s)] \in set
    THEN TrimEndIn(SubSeq(s, 1, Len(s) - 1), set)
    ELSE s

\* str::trim
Trim(s) == TrimEndIn(TrimStartIn(s, Whitespace), Whitespace)

\* str::trim_matches(ch)
TrimMatches(s, ch) == TrimEndIn(TrimStartIn(s, {ch}), {ch})

\* char lowercase mapping, on the characters the model draws
LowerChar(c) ==
    CASE c = "Y" -> "y"
      [] c = "E" -> "e"
      [] c = "S" -> "s"
      [] c = "N" -> "n"
      [] c = "O" -> "o"
      [] OTHER -> c

\* str::to_lowercase
ToLowercase(s) == [i \in 1..Len(s) |-> LowerChar(s[i])]

\* str::find(pat) from 1-based position `from`; 0 when there is no match
FindFrom(s, pat, from) ==
    LET hits == {i \in from..(Len(s) - Len(pat) + 1) :
                    SubSeq(s, i, i + Len(pat) - 1) = pat}
    IN IF hits = {} THEN 0 ELSE CHOOSE i \in hits : \A j \in hits : i <= j

Find(s, pat) == FindFrom(s, pat, 1)

\* str::contains
Contains(s, pat) == Find(s, pat) # 0

\* HashMap::insert
Insert(m, k, v) == [x \in DOMAIN m \cup {k} |-> IF x = k THEN v ELSE m[x]]

EmptyMap == [x \in {} |-> EmptyStr]

\* HashMap::get
Get(m, k) == IF k \in DOMAIN m THEN Some(m[k]) ELSE None

(***************************************************************************)
(* Environment::expand_variables (environment.rs:72-88).                   *)
(* One ExpandStep is one iteration of the `while let` loop.                *)
(***************************************************************************)
DollarBrace == <<"$", "{">>
CloseBrace == <<"}">>

\* result.find("${")
ExpandStart(r) == Find(r, DollarBrace)

\* result[start..].find('}') as an absolute position, 0 when absent
ExpandEnd(r, start) == FindFrom(r, CloseBrace, start)

\* the body of one loop iteration: result.replace_range(start..=end, value)
ExpandReplace(r, m) ==
    LET start == ExpandStart(r)
        end == ExpandEnd(r, start)
        var_name == SubSeq(r, start + 2, end - 1)
        replacement == IF var_name \in DOMAIN m THEN m[var_name] ELSE EmptyStr
    IN SubSeq(r, 1, start - 1) \o replacement \o SubSeq(r, end + 1, Len(r))

\* the loop continues: a "${" is found and a '}' follows it
ExpandContinues(r) ==
    /\ ExpandStart(r) # 0
    /\ ExpandEnd(r, ExpandStart(r)) # 0

(***************************************************************************)
(* Environment::load_env_file and Environment::load_from_config            *)
(* (environment.rs:20-62).  What is on disk at a path is Missing,          *)
(* Unreadable (it exists, fs::read_to_string fails) or a File with its     *)
(* content.                                                                *)
(***************************************************************************)
Missing == [kind |-> "missing", content |-> << >>]
Unreadable == [kind |-> "unreadable", content |-> << >>]
File(content) == [kind |-> "file", content |-> content]

\* str::lines: split on "\n", a trailing "\r" of a line dropped, no last
\* empty line
RECURSIVE Lines(_)
Lines(content) ==
    IF content = << >> THEN << >>
    ELSE LET nl == Find(content, <<"\n">>)
             raw == IF nl = 0 THEN content ELSE SubSeq(content, 1, nl - 1)
             line == IF raw # << >> /\ raw[Len(raw)] = "\r"
                     THEN SubSeq(raw, 1, Len(raw) - 1) ELSE raw
             rest == IF nl = 0 THEN << >>
                     ELSE SubSeq(content, nl + 1, Len(content))
         IN <<line>> \o Lines(rest)

\* one iteration of `for line in content.lines()` (environment.rs:48-59)
LoadEnvLine(m, rawline) ==
    LET line == Trim(rawline)
        eq == Find(line, <<"=">>)
    IN IF line = << >> \/ Head(line) = "#" THEN m
       ELSE IF eq = 0 THEN m
       ELSE LET key == Trim(SubSeq(line, 1, eq - 1))
                value == TrimMatches(TrimMatches(
                             Trim(SubSeq(line, eq + 1, Len(line))), "\""), "'")
            IN Insert(m, key, value)

RECURSIVE LoadEnvLines(_, _)
LoadEnvLines(m, lines) ==
    IF lines = << >> THEN m
    ELSE LoadEnvLines(LoadEnvLine(m, Head(lines)), Tail(lines))

\* load_env_file on a readable file
LoadEnvFile(m, content) == LoadEnvLines(m, Lines(content))

\* Path::new(project_dir).join(file_path)
PathJoin(dir, file_path) ==
    IF file_path # << >> /\ Head(file_path) = "/" THEN file_path
    ELSE IF dir = << >> \/ dir[Len(dir)] = "/" THEN dir \o file_path
    ELSE dir \o <<"/">> \o file_path

\* what is on disk at a path
OnDisk(d, path) == IF path \in DOMAIN d THEN d[path] ELSE Missing

\* a loop over the files that passes over a file it cannot read as it
\* passes over one that does not exist
RECURSIVE LoadFilesSkipUnreadable(_, _, _, _)
LoadFilesSkipUnreadable(m, files, project_dir, d) ==
    IF files = << >> THEN [ok |-> TRUE, vars |-> m]
    ELSE LET file == OnDisk(d, PathJoin(project_dir, Head(files)))
         IN IF file.kind = "file"
            THEN LoadFilesSkipUnreadable(LoadEnvFile(m, file.content),
                                         Tail(files), project_dir, d)
            ELSE LoadFilesSkipUnreadable(m, Tail(files), project_dir, d)

\* the `for file_path in &config.load_files` loop (environment.rs:22-27):
\* a missing file is skipped, an unreadable one returns the error at once
RECURSIVE LoadFiles(_, _, _, _)
LoadFiles(m, files, project_dir, d) ==
    IF files = << >> THEN [ok |-> TRUE, vars |-> m]
    ELSE LET full_path == PathJoin(project_dir, Head(files))
             file == OnDisk(d, full_path)
         IN IF file.kind = "missing"
            THEN LoadFiles(m, Tail(files), project_dir, d)
            ELSE IF file.kind = "unreadable"
            THEN [ok |-> FALSE, vars |-> m]
            ELSE LoadFiles(LoadEnvFile(m, file.content), Tail(files),
                           project_dir, d)

\* inserting every entry of a map (keys are unique, so the HashMap's
\* iteration order does not matter)
InsertAll(m, extra) ==
    [x \in DOMAIN m \cup DOMAIN extra |->
        IF x \in DOMAIN extra THEN extra[x] ELSE m[x]]

\* the variant of load_from_config a precedence slip would give: the
\* configuration table applied after the process environment
LoadFromConfigInlineLast(m, envcfg, project_dir, d, pe) ==
    LET files == LoadFiles(m, envcfg.load_files, project_dir, d)
    IN IF ~files.ok THEN files
       ELSE [ok |-> TRUE,
             vars |-> IF IsNone(envcfg.additional_vars)
                      THEN InsertAll(files.vars, pe)
                      ELSE InsertAll(InsertAll(files.vars, pe),
                                     Unwrap(envcfg.additional_vars))]

\* Environment::load_from_config: files, then the configuration table,
\* then the process environment; [ok, vars] with vars as the call left them
LoadFromConfig(m, envcfg, project_dir, d, pe) ==
    LET files == LoadFiles(m, envcfg.load_files, project_dir, d)
        withConfig == IF IsNone(envcfg.additional_vars) THEN files.vars
                      ELSE InsertAll(files.vars,
                                     Unwrap(envcfg.additional_vars))
    IN IF ~files.ok THEN files
       ELSE [ok |-> TRUE, vars |-> InsertAll(withConfig, pe)]

\* [&str]::join
RECURSIVE Join(_, _)
Join(parts, sep) ==
    IF parts = << >> THEN << >>
    ELSE IF Len(parts) = 1 THEN parts[1]
    ELSE parts[1] \o sep \o Join(Tail(parts), sep)

CommaSpace == <<",", " ">>

MissingPrefix ==
    <<"M", "i", "s", "s", "i", "n", "g", " ", "r", "e", "q", "u", "i", "r",
      "e", "d", " ", "e", "n", "v", "i", "r", "o", "n", "m", "e", "n", "t",
      " ", "v", "a", "r", "i", "a", "b", "l", "e", "s", ":", " ">>

\* the text validate_required bails with
MissingMessage(missing) == MissingPrefix \o Join(missing, CommaSpace)

\* validate_required returning at the first missing name
ValidateRequiredFirst(m, required_vars) ==
    LET missing == SelectSeq(required_vars, LAMBDA v : v \notin DOMAIN m)
    IN IF missing = << >> THEN << >> ELSE <<missing[1]>>

\* Environment::validate_required: the names that are missing, in order
ValidateRequired(m, required_vars) ==
    SelectSeq(required_vars, LAMBDA v : v \notin DOMAIN m)


(***************************************************************************)
(* String literals of the code and of the drawn configurations.            *)
(***************************************************************************)
KEYSTORE_ACCOUNT ==
    <<"K", "E", "Y", "S", "T", "O", "R", "E", "_", "A", "C", "C", "O", "U",
      "N", "T">>
KEYSTORE_PASSWORD ==
    <<"K", "E", "Y", "S", "T", "O", "R", "E", "_", "P", "A", "S", "S", "W",
      "O", "R", "D">>
BROADCAST_ACCOUNT ==
    <<"B", "R", "O", "A", "D", "C", "A", "S", "T", "_", "A", "C", "C", "O",
      "U", "N", "T">>
API_KEY == <<"A", "P", "I", "_", "K", "E", "Y">>
DefaultBasePath == <<"/", "t", "m", "p">>
DotEnv == <<".", "e", "n", "v">>
Sepolia == <<"s", "e", "p", "o", "l", "i", "a">>
Mainnet == <<"m", "a", "i", "n", "n", "e", "t">>
ScriptDir == <<"s", "c", "r", "i", "p", "t", "/">>
ScriptSuffix == <<".", "s", ".", "s", "o", "l">>
ArgScript == <<"s", "c", "r", "i", "p", "t">>
ArgChainId == <<"-", "-", "c", "h", "a", "i", "n", "-", "i", "d">>
ArgRpcUrl == <<"-", "-", "r", "p", "c", "-", "u", "r", "l">>
ArgBroadcast == <<"-", "-", "b", "r", "o", "a", "d", "c", "a", "s", "t">>
ArgVerify == <<"-", "-", "v", "e", "r", "i", "f", "y">>
ArgAccount == <<"-", "-", "a", "c", "c", "o", "u", "n", "t">>
ArgPassword == <<"-", "-", "p", "a", "s", "s", "w", "o", "r", "d">>
ArgSender == <<"-", "-", "s", "e", "n", "d", "e", "r">>
ArgResume == <<"-", "-", "r", "e", "s", "u", "m", "e">>
Forge == <<"f", "o", "r", "g", "e">>

\* the required set of validate_environment (deployer.rs:385)
RequiredVars == <<KEYSTORE_ACCOUNT, KEYSTORE_PASSWORD, BROADCAST_ACCOUNT>>

(***************************************************************************)
(* Configurations, process environments and disks the runs are drawn from. *)
(***************************************************************************)
ProjectName == <<"p">>
RepoUrl == <<"g", "i", "t", ":", "/", "/", "r">>
PlainPath == <<"/", "d">>
QuotedPath == <<" ", "\"", "/", "d", "\"", " ">>
ProcessDir == <<"/", "w">>
SetupBlank == <<" ">>
SetupMake == <<"m", "a", "k", "e", " ", " ", "a", "l", "l">>
RpcPlain == <<"h", "t", "t", "p", ":", "/", "/", "n">>
RpcTemplate == <<"h", "/", "$", "{", "A", "P", "I", "_", "K", "E", "Y", "}">>
ValAccount == <<"a">>
ValPassword == <<"s">>
ValSender == <<"0", "x", "b">>
ValKey == <<"k">>
ValOther == <<"o">>
ExtraLegacy == <<"-", "-", "l", "e", "g", "a", "c", "y">>
ExtraVerbose == <<"-", "v", "v", "v">>

Networks ==
    [n \in {Sepolia} |->
        [chain_id |-> 11155111, rpc_url |-> RpcTemplate, verify |-> TRUE]]

Credentials ==
    [k \in {KEYSTORE_ACCOUNT, KEYSTORE_PASSWORD, BROADCAST_ACCOUNT} |->
        CASE k = KEYSTORE_ACCOUNT -> ValAccount
          [] k = KEYSTORE_PASSWORD -> ValPassword
          [] OTHER -> ValSender]

Restrict(m, keys) == [k \in keys |-> m[k]]

\* the configuration the unit specifications (load, expand) keep fixed
DefaultConfig ==
    [project |-> [name |-> ProjectName, script |-> <<"D">>,
                  network |-> Sepolia, setup_command |-> SetupMake,
                  repo |-> None, path |-> None],
     env |-> [load_files |-> <<DotEnv>>, additional_vars |-> Some(Credentials)],
     networks |-> Networks]


(***************************************************************************)
(* Calls of Environment::expand_variables on drawn templates and maps.     *)
(***************************************************************************)
ExpandAlphabet == {"$", "{", "}", "A"}

Templates ==
    UNION {[1..n -> ExpandAlphabet] : n \in 0..MaxTemplateLen}

VarA == <<"A">>
VarB == <<"B">>

ExpandMaps ==
    { EmptyMap,
      [k \in {VarA} |-> <<"x">>],
      [k \in {VarA} |-> <<"$">>],
      [k \in {VarA, VarB} |->
          IF k = VarA THEN <<"$", "{", "B", "}">> ELSE <<"z">>],
      [k \in {VarA} |-> <<"$", "{", "A", "}">>],
      [k \in {VarA} |-> <<"A", "$", "{", "A", "}">>] }

InitExpand ==
    /\ config = DefaultConfig
    /\ penv = EmptyMap
    /\ cwd = ProcessDir
    /\ dirs = {}
    /\ disk = EmptyMap
    /\ vars \in ExpandMaps
    /\ ctx = None
    /\ outcome = "running"
    /\ error = NoError
    /\ trace = << >>
    /\ forge_cmd = None
    /\ extra_args = << >>
    /\ cli_args = NoArgs
    /\ required = << >>
    /\ printed = << >>
    /\ text \in Templates
    /\ result = text
    /\ pc = "expand"

\* one iteration of the `while let Some(start) = result.find("${")` loop
\* whose inner `if let Some(end)` matched
ExpandStep ==
    /\ pc = "expand"
    /\ ExpandContinues(result)
    /\ Len(ExpandReplace(result, vars)) <= MaxResultLen
    /\ result' = ExpandReplace(result, vars)
    /\ UNCHANGED <<config, penv, cwd, dirs, disk, vars, ctx, pc, outcome,
                   error, trace, text, forge_cmd, extra_args, printed, cli_args,
                   required>>

\* the loop ends (no "${" left, or `break` on a "${" with no '}' after it)
\* and `result` is returned
ExpandReturn ==
    /\ pc = "expand"
    /\ ~ExpandContinues(result)
    /\ pc' = "expanded"
    /\ UNCHANGED <<config, penv, cwd, dirs, disk, vars, ctx, outcome, error,
                   trace, text, result, forge_cmd, extra_args, printed, cli_args,
                   required>>

NextExpand == ExpandStep \/ ExpandReturn

SpecExpand == InitExpand /\ [][NextExpand]_allvars

(***************************************************************************)
(* Calls of Environment::load_from_config on drawn sources.                *)
(***************************************************************************)
DotLocal == <<".", "l">>

EnvLines ==
    { <<"A", "=", "x">>,
      <<" ", "A", " ", "=", " ", "\"", "y", "\"", " ">>,
      <<"#", "A", "=", "w">> }

RECURSIVE JoinLines(_)
JoinLines(lines) ==
    IF lines = << >> THEN << >>
    ELSE IF Len(lines) = 1 THEN Head(lines)
    ELSE Head(lines) \o <<"\n">> \o JoinLines(Tail(lines))

FileContents ==
    {JoinLines(ls) : ls \in UNION {[1..n -> EnvLines] : n \in 0..MaxFileLines}}

FileStates == {Missing, Unreadable} \cup {File(c) : c \in FileContents}

LoadFileLists ==
    { << >>, <<DotEnv>>, <<DotEnv, DotLocal>>, <<DotLocal, DotEnv>>,
      <<DotEnv, DotEnv>> }

InlineTables ==
    { None, Some([k \in {VarA} |-> <<"i">>]), Some([k \in {VarB} |-> <<"i">>]) }

ProcessEnvs ==
    { EmptyMap, [k \in {VarA} |-> <<"p">>], [k \in {VarB} |-> <<"p">>] }

InitLoad ==
    /\ \E files \in LoadFileLists, table \in InlineTables :
          config = [DefaultConfig EXCEPT
                       !.env = [load_files |-> files,
                                additional_vars |-> table]]
    /\ penv \in ProcessEnvs
    /\ cwd = ProcessDir
    /\ dirs = {}
    /\ disk \in [{PathJoin(ProcessDir, f) : f \in {DotEnv, DotLocal}}
                    -> FileStates]
    /\ vars = EmptyMap
    /\ ctx = None
    /\ outcome = "running"
    /\ error = NoError
    /\ trace = << >>
    /\ forge_cmd = None
    /\ extra_args = << >>
    /\ cli_args = NoArgs
    /\ required = << >>
    /\ printed = << >>
    /\ text = << >>
    /\ result = << >>
    /\ pc = "load"

\* env.load_from_config(&config.env, project_dir) on a fresh Environment
LoadFromConfigCall ==
    /\ pc = "load"
    /\ LET r == LoadFromConfig(vars, config.env, cwd, disk, penv)
       IN /\ vars' = r.vars
          /\ pc' = IF r.ok THEN "loaded" ELSE "load_failed"
    /\ UNCHANGED <<config, penv, cwd, dirs, disk, ctx, outcome, error, trace,
                   text, result, forge_cmd, extra_args, printed, cli_args,
                   required>>

NextLoad == LoadFromConfigCall

SpecLoad == InitLoad /\ [][NextLoad]_allvars


(***************************************************************************)
(* Claims about Environment::load_from_config, under SpecLoad.             *)
(***************************************************************************)
\* what one line of an environment file defines: no key, or one
LineDef(line) == LoadEnvLine(EmptyMap, line)

\* the keys a file defines, each with the value of the last line defining it
FileDefs(content) ==
    LET ls == Lines(content)
        keys == UNION {DOMAIN LineDef(ls[i]) : i \in 1..Len(ls)}
        LastLine(k) == CHOOSE i \in 1..Len(ls) :
                          /\ k \in DOMAIN LineDef(ls[i])
                          /\ \A j \in (i + 1)..Len(ls) :
                                k \notin DOMAIN LineDef(ls[j])
    IN [k \in keys |-> LineDef(ls[LastLine(k)])[k]]

\* the sources of the load in increasing precedence: the listed files in
\* order, the inline table, the process environment
Sources ==
    LET files == config.env.load_files
        n == Len(files)
        FileSource(i) ==
            LET f == OnDisk(disk, PathJoin(cwd, files[i]))
            IN IF f.kind = "file" THEN FileDefs(f.content) ELSE EmptyMap
    IN [i \in 1..(n + 2) |->
           IF i <= n THEN FileSource(i)
           ELSE IF i = n + 1
           THEN IF IsSome(config.env.additional_vars)
                THEN Unwrap(config.env.additional_vars) ELSE EmptyMap
           ELSE penv]

Defining(k) == {i \in DOMAIN Sources : k \in DOMAIN Sources[i]}

Highest(k) == CHOOSE i \in Defining(k) : \A j \in Defining(k) : j <= i

\* C8: after a successful load, every key resolves to the value of the
\* highest-precedence source that defines it (files in listed order, then
\* the inline table, then the process environment), and a key that no
\* source defines is absent.
C8_MergePrecedence ==
    pc = "loaded" =>
        /\ DOMAIN vars = UNION {DOMAIN Sources[i] : i \in DOMAIN Sources}
        /\ \A k \in DOMAIN vars : vars[k] = Sources[Highest(k)][k]

\* a load in which one key is defined by two files, the inline table and
\* the process environment at once
C8_Witness ==
    /\ pc = "loaded"
    /\ \E k \in DOMAIN vars :
          /\ Cardinality(Defining(k)) = 4
          /\ Cardinality({Sources[i][k] : i \in Defining(k)}) >= 3

(***************************************************************************)
(* Claims about Environment::expand_variables, under SpecExpand.           *)
(***************************************************************************)
\* the expansion that advances past each replaced span: every "${NAME}"
\* span of the template, left to right, replaced by the value of NAME or
\* by nothing, the text from an unclosed "${" on kept
RECURSIVE SinglePass(_, _)
SinglePass(s, m) ==
    LET start == Find(s, DollarBrace)
        end == FindFrom(s, CloseBrace, start)
        name == SubSeq(s, start + 2, end - 1)
    IN IF start = 0 \/ end = 0 THEN s
       ELSE SubSeq(s, 1, start - 1)
            \o (IF name \in DOMAIN m THEN m[name] ELSE EmptyStr)
            \o SinglePass(SubSeq(s, end + 1, Len(s)), m)

\* a template that is exactly one placeholder "${NAME}"
Placeholder(name) == DollarBrace \o name \o CloseBrace

\* C9: expansion is not recursive: when the value substituted for a
\* placeholder itself contains a "${NAME}" sequence, the value appears
\* verbatim in the result (A = "${B}", B = "z": "${A}" yields "${B}").
C9_NoRecursiveExpansion ==
    \A k \in DOMAIN vars :
        (/\ pc = "expanded"
         /\ text = Placeholder(k)
         /\ ExpandContinues(vars[k]))
        => result = vars[k]

\* C10: with no "${" in any value of the map, the result is the template
\* with each well-formed "${NAME}" span replaced, left to right, by the
\* value of NAME or by the empty string; a template without "${" and the
\* text from an unclosed "${" on are unchanged.
C10_ExpandsEachSpan ==
    (/\ pc = "expanded"
     /\ \A k \in DOMAIN vars : ~Contains(vars[k], DollarBrace))
    => result = SinglePass(text, vars)

(***************************************************************************)
(* ContractDeployer (deployer.rs) and DeploymentConfig (config.rs):        *)
(* the pure parts of the workflow.                                         *)
(***************************************************************************)
\* the back-tick character (the lexer of TLA+ has no literal for it)
Backtick == "BACKTICK"

\* sanitize_path: trim, then strip double quotes, then single quotes,
\* then back-ticks
SanitizePath(path) ==
    TrimMatches(TrimMatches(TrimMatches(Trim(path), "\""), "'"), Backtick)

\* get_deployment_base_path
GetDeploymentBasePath(cfg) ==
    IF IsSome(cfg.project.path) THEN SanitizePath(Unwrap(cfg.project.path))
    ELSE DefaultBasePath

\* temp_dir of prepare_repo_deployment: format!("{}/{}", base_path, name)
TempDir(cfg) == GetDeploymentBasePath(cfg) \o <<"/">> \o cfg.project.name

\* the DeploymentContext of the branch without a repository, as a slip
\* that marks the working directory for cleanup would build it
NoRepoContextMarked(current_dir) ==
    [working_directory |-> current_dir, cleanup_path |-> Some(current_dir)]

\* the DeploymentContext of the `None` branch of prepare_deployment_context
NoRepoContext(current_dir) ==
    [working_directory |-> current_dir, cleanup_path |-> None]

\* the DeploymentContext of the repository branch, as a slip that marks
\* the parent of the clone for cleanup would build it
RepoContextParent(work_dir) ==
    [working_directory |-> work_dir,
     cleanup_path |-> Some(SubSeq(work_dir, 1, Len(work_dir) - 2))]

\* the DeploymentContext of the `Some(repo_url)` branch
RepoContext(work_dir) ==
    [working_directory |-> work_dir, cleanup_path |-> Some(work_dir)]

\* a Path::exists that never sees the directory
TargetExistsNever(existing, target_dir) == FALSE

\* Path::new(target_dir).exists() in clone_repo
TargetExists(existing, target_dir) == target_dir \in existing

\* validate_environment with the sender left out of the required names
ValidateEnvironmentShort(m) ==
    ValidateRequired(m, <<KEYSTORE_ACCOUNT, KEYSTORE_PASSWORD>>)

\* validate_environment: the missing names of the required set
ValidateEnvironment(m) == ValidateRequired(m, RequiredVars)

\* a split that takes only the empty command line for no command
SplitWhitespaceUntrimmed(s) == IF s = << >> THEN << >> ELSE <<s>>

\* str::split_whitespace
RECURSIVE SplitWhitespace(_)
SplitWhitespace(s) ==
    LET t == TrimStartIn(s, Whitespace)
        ws == {i \in 1..Len(t) : t[i] \in Whitespace}
        stop == IF ws = {} THEN Len(t) + 1
                ELSE CHOOSE i \in ws : \A j \in ws : i <= j
    IN IF t = << >> THEN << >>
       ELSE <<SubSeq(t, 1, stop - 1)>>
            \o SplitWhitespace(SubSeq(t, stop, Len(t)))

\* how a subprocess can end: it does not start, waiting for it fails, it
\* exits with a code, or a signal ends it
SpawnOutcomes == {"spawn_err", "wait_err", "exit0", "exit1", "signal"}

\* an ExitStatus::success that takes every status for success
StatusSuccessAlways(status) == TRUE

\* ExitStatus::success
StatusSuccess(status) == status = "exit0"

\* the context of a failed lookup, naming no network
NetworkNotFoundMessageBare(network) ==
    <<"N", "e", "t", "w", "o", "r", "k">>
    \o <<" ", "n", "o", "t", " ", "f", "o", "u", "n", "d", " ", "i", "n", " ">>
    \o <<"c", "o", "n", "f", "i", "g", "u", "r", "a", "t", "i", "o", "n">>

\* format!("Network '{}' not found in configuration", network)
\* (deployer.rs:214-217)
NetworkNotFoundMessage(network) ==
    <<"N", "e", "t", "w", "o", "r", "k", " ", "'">> \o network
    \o <<"'", " ", "n", "o", "t", " ", "f", "o", "u", "n", "d", " ", "i", "n">>
    \o <<" ", "c", "o", "n", "f", "i", "g", "u", "r", "a", "t", "i", "o", "n">>

\* DeploymentConfig::get_network
GetNetwork(cfg, network_name) == Get(cfg.networks, network_name)

\* DeploymentConfig::get_script_name: format!("{}.s.sol", script)
GetScriptName(cfg) == cfg.project.script \o ScriptSuffix

\* u64::to_string
DigitChars == <<"0", "1", "2", "3", "4", "5", "6", "7", "8", "9">>

RECURSIVE U64ToString(_)
U64ToString(n) ==
    IF n < 10 THEN <<DigitChars[n + 1]>>
    ELSE U64ToString(n \div 10) \o <<DigitChars[(n % 10) + 1]>>

\* `if let Some(v) = self.env.get(name) { cmd.arg(flag).arg(v) }`
CredentialArgs(m, name, flag) ==
    IF IsSome(Get(m, name)) THEN <<flag, Unwrap(Get(m, name))>> ELSE << >>

\* a build_forge_command that always passes --sender, empty when the
\* variable is undefined, as display_command_info echoes it
BuildForgeArgsSenderAlways(cfg, m, network_config, script_name, extra) ==
    <<ArgScript, ScriptDir \o script_name, ArgChainId,
      U64ToString(network_config.chain_id), ArgRpcUrl, cfg.project.network,
      ArgBroadcast>>
    \o (IF network_config.verify THEN <<ArgVerify>> ELSE << >>)
    \o CredentialArgs(m, KEYSTORE_ACCOUNT, ArgAccount)
    \o CredentialArgs(m, KEYSTORE_PASSWORD, ArgPassword)
    \o <<ArgSender, IF IsSome(Get(m, BROADCAST_ACCOUNT))
                    THEN Unwrap(Get(m, BROADCAST_ACCOUNT)) ELSE EmptyStr>>
    \o <<ArgResume>>
    \o extra

\* build_forge_command: the argument list of the forge Command
BuildForgeArgs(cfg, m, network_config, script_name, extra) ==
    <<ArgScript, ScriptDir \o script_name, ArgChainId,
      U64ToString(network_config.chain_id), ArgRpcUrl, cfg.project.network,
      ArgBroadcast>>
    \o (IF network_config.verify THEN <<ArgVerify>> ELSE << >>)
    \o CredentialArgs(m, KEYSTORE_ACCOUNT, ArgAccount)
    \o CredentialArgs(m, KEYSTORE_PASSWORD, ArgPassword)
    \o CredentialArgs(m, BROADCAST_ACCOUNT, ArgSender)
    \o <<ArgResume>>
    \o extra

\* a confirmation that compares the trimmed input as typed
ConfirmAcceptsCaseSensitive(input) ==
    LET answer == Trim(input)
    IN answer = <<"y">> \/ answer = <<"y", "e", "s">>

\* confirm_execution on the line read: trim, lowercase, "y" or "yes"
ConfirmAccepts(input) ==
    LET answer == ToLowercase(Trim(input))
    IN answer = <<"y">> \/ answer = <<"y", "e", "s">>


(***************************************************************************)
(* What the run prints about the deployment (display_deployment_info,      *)
(* display_command_info): lines of label and value.                        *)
(***************************************************************************)
LabelProject == <<"P", "R", "O", "J", "E", "C", "T">>
LabelScript == <<"S", "C", "R", "I", "P", "T">>
LabelNetwork == <<"N", "E", "T", "W", "O", "R", "K">>
LabelChainId == <<"C", "H", "A", "I", "N", "_", "I", "D">>
LabelRpcUrl == <<"R", "P", "C", "_", "U", "R", "L">>
LabelVerify == <<"V", "E", "R", "I", "F", "Y">>
LabelExecuting == <<"E", "x", "e", "c", "u", "t", "i", "n", "g">>
Masked == <<"*", "*", "*", "*", "*", "*", "*", "*">>
StrTrue == <<"t", "r", "u", "e">>
StrFalse == <<"f", "a", "l", "s", "e">>
CmdHead ==
    <<"f", "o", "r", "g", "e", " ", "s", "c", "r", "i", "p", "t", " ", "s",
      "c", "r", "i", "p", "t", "/">>
CmdChainId == <<" ", "-", "-", "c", "h", "a", "i", "n", "-", "i", "d", " ">>
CmdRpcUrl == <<" ", "-", "-", "r", "p", "c", "-", "u", "r", "l", " ">>
CmdSender ==
    <<" ", "-", "-", "b", "r", "o", "a", "d", "c", "a", "s", "t", " ", "-",
      "-", "s", "e", "n", "d", "e", "r", " ">>
CmdVerify == <<" ", "-", "-", "v", "e", "r", "i", "f", "y">>

Line(label, value) == [label |-> label, value |-> value]

\* the orders a HashMap of these keys can be iterated in
Orders(keys) ==
    {o \in [1..Cardinality(keys) -> keys] :
        \A i, j \in DOMAIN o : i # j => o[i] # o[j]}

\* the keys display_deployment_info prints a line for
DisplayedKeys(m) ==
    {k \in DOMAIN m : Contains(k, API_KEY) \/ Contains(k, LabelRpcUrl)}

\* display_deployment_info, with the variables listed in `order`
DisplayDeploymentInfo(cfg, m, network_config, order) ==
    <<Line(LabelProject, cfg.project.name),
      Line(LabelScript, GetScriptName(cfg)),
      Line(LabelNetwork, cfg.project.network),
      Line(LabelChainId, U64ToString(network_config.chain_id)),
      Line(LabelRpcUrl, network_config.rpc_url),
      Line(LabelVerify, IF network_config.verify THEN StrTrue ELSE StrFalse)>>
    \o [i \in DOMAIN order |->
           IF Contains(order[i], API_KEY) THEN Line(order[i], Masked)
           ELSE Line(order[i], m[order[i]])]

\* display_command_info: the echoed command line
DisplayCommandInfo(cfg, m, network_config, script_name) ==
    <<Line(LabelExecuting,
           CmdHead \o script_name
           \o CmdChainId \o U64ToString(network_config.chain_id)
           \o CmdRpcUrl \o cfg.project.network
           \o CmdSender
           \o (IF IsSome(Get(m, BROADCAST_ACCOUNT))
               THEN Unwrap(Get(m, BROADCAST_ACCOUNT)) ELSE EmptyStr)
           \o <<" ">>
           \o (IF network_config.verify THEN CmdVerify ELSE EmptyStr))>>

(***************************************************************************)
(* One run of ContractDeployer::deploy (deployer.rs:33-46).                *)
(***************************************************************************)
NetworkTables ==
    { Networks,
      [n \in {Sepolia} |->
          [chain_id |-> 1, rpc_url |-> RpcPlain, verify |-> FALSE]] }

CredentialTables ==
    { Some(Credentials),
      Some(Restrict(Credentials, {KEYSTORE_ACCOUNT, KEYSTORE_PASSWORD})),
      None }

RunConfigs ==
    { [project |-> [name |-> ProjectName, script |-> <<"D">>,
                    network |-> network, setup_command |-> setup,
                    repo |-> source[1], path |-> source[2]],
       env |-> [load_files |-> <<DotEnv>>, additional_vars |-> table],
       networks |-> networks] :
        network \in {Sepolia, Mainnet},
        setup \in {EmptyStr, SetupBlank, SetupMake},
        source \in {<<None, None>>, <<Some(RepoUrl), None>>,
                    <<Some(RepoUrl), Some(PlainPath)>>,
                    <<Some(RepoUrl), Some(QuotedPath)>>},
        table \in CredentialTables,
        networks \in NetworkTables }

RunProcessEnvs ==
    { EmptyMap,
      [k \in {BROADCAST_ACCOUNT, API_KEY} |->
          IF k = API_KEY THEN ValKey ELSE ValOther] }

\* the .env of a run: absent, unreadable, or naming the sender
SenderFile == File(BROADCAST_ACCOUNT \o <<"=">> \o ValSender)

RunDisks(cfg) ==
    { EmptyMap } \cup
    { [p \in {PathJoin(d, DotEnv)} |-> f] :
        d \in {ProcessDir, TempDir(cfg)}, f \in {Unreadable, SenderFile} }

\* the lines a read of standard input can give
ResponseLines ==
    { <<"y", "\n">>, <<"Y", "\n">>, <<"y", "e", "s", "\n">>,
      <<"Y", "E", "S", "\r", "\n">>, <<" ", "y", "E", "s", " ", "\n">>,
      <<"y", "e", "s">>, <<"n", "\n">>, <<"n", "o", "\n">>, <<"\n">>,
      << >>, <<"y", "y", "\n">>, <<"y", "e", "\n">>,
      <<"y", " ", "e", "s", "\n">> }

\* the command lines of a run: no option, --skip-confirmation, or
\* --script and --network naming another script and the configured network
ArgsChoices ==
    { NoArgs,
      [NoArgs EXCEPT !.skip_confirmation = TRUE],
      [NoArgs EXCEPT !.script = Some(<<"S">>), !.network = Some(Sepolia)] }

Init ==
    /\ config \in RunConfigs
    /\ penv \in RunProcessEnvs
    /\ cwd = ProcessDir
    /\ dirs \in {{ProcessDir}} \cup
                (IF IsSome(config.project.repo)
                 THEN {{ProcessDir, TempDir(config)}} ELSE {})
    /\ disk \in RunDisks(config)
    /\ extra_args \in {<< >>, <<ExtraLegacy>>}
    /\ vars = EmptyMap
    /\ ctx = None
    /\ outcome = "running"
    /\ error = NoError
    /\ trace = << >>
    /\ forge_cmd = None
    /\ cli_args \in ArgsChoices
    /\ required = << >>
    /\ printed = << >>
    /\ text = << >>
    /\ result = << >>
    /\ pc = "prepare"

\* a side effect of the run: the operation, the function it is made in,
\* the directory it acts on or runs in and whether that existed before,
\* how the operation ended, its arguments
Event(op, at, path, status, arg) ==
    [op |-> op, at |-> at, path |-> path, pre |-> path \in dirs,
     status |-> status, arg |-> arg]

\* an error propagated by `?` out of deploy(): the run ends Failed
Fail(msg, arg) ==
    /\ pc' = "done"
    /\ outcome' = "Failed"
    /\ error' = [msg |-> msg, arg |-> arg]

\* prepare_deployment_context, `None` branch (deployer.rs:58-68)
PrepareNoRepo ==
    /\ pc = "prepare"
    /\ IsNone(config.project.repo)
    /\ \/ /\ ctx' = Some(NoRepoContext(cwd))
          /\ pc' = "load_env"
          /\ UNCHANGED <<outcome, error>>
       \/ /\ Fail("Failed to get current directory", << >>)
          /\ UNCHANGED ctx
    /\ UNCHANGED <<config, penv, cwd, dirs, disk, vars, trace, text, result,
                   forge_cmd, extra_args, printed, cli_args, required>>

\* prepare_repo_deployment up to the removal in clone_repo
\* (deployer.rs:73-83, 158-163)
CloneRepoRemoveExisting ==
    /\ pc = "prepare"
    /\ IsSome(config.project.repo)
    /\ LET target_dir == TempDir(config)
       IN IF TargetExists(dirs, target_dir)
          THEN \/ /\ dirs' = dirs \ {target_dir}
                  /\ trace' = Append(trace, Event("remove_dir_all",
                                  "clone_repo", target_dir, "ok", << >>))
                  /\ pc' = "clone"
                  /\ UNCHANGED <<outcome, error>>
               \/ /\ trace' = Append(trace, Event("remove_dir_all",
                                  "clone_repo", target_dir, "err", << >>))
                  /\ Fail("Failed to remove existing directory", << >>)
                  /\ UNCHANGED dirs
          ELSE /\ pc' = "clone"
               /\ UNCHANGED <<dirs, trace, outcome, error>>
    /\ UNCHANGED <<config, penv, cwd, disk, vars, ctx, text, result,
                   forge_cmd, extra_args, printed, cli_args, required>>

\* Repository::clone in clone_repo and the context built from its target
\* (deployer.rs:165-168, 52-56); a failed clone may leave the directory
CloneRepoFetch ==
    /\ pc = "clone"
    /\ LET target_dir == TempDir(config)
           repo_url == Unwrap(config.project.repo)
       IN \/ /\ trace' = Append(trace, Event("clone", "clone_repo",
                                             target_dir, "ok", <<repo_url>>))
             /\ dirs' = dirs \cup {target_dir}
             /\ ctx' = Some(RepoContext(target_dir))
             /\ pc' = "load_env"
             /\ UNCHANGED <<outcome, error>>
          \/ /\ trace' = Append(trace, Event("clone", "clone_repo",
                                             target_dir, "err", <<repo_url>>))
             /\ dirs' \in {dirs, dirs \cup {target_dir}}
             /\ Fail("Failed to clone repository", << >>)
             /\ UNCHANGED ctx
    /\ UNCHANGED <<config, penv, cwd, disk, vars, text, result, forge_cmd,
                   extra_args, printed, cli_args, required>>

\* load_and_validate_environment (deployer.rs:132-146).  The call at
\* deployer.rs:136 passes no project_dir to load_from_config, which takes
\* one: either directory of the run may be the base.
LoadAndValidateEnvironment ==
    /\ pc = "load_env"
    /\ \E project_dir \in {cwd, Unwrap(ctx).working_directory} :
          LET r == LoadFromConfig(vars, config.env, project_dir, disk, penv)
              missing == ValidateEnvironment(r.vars)
          IN /\ vars' = r.vars
             /\ trace' = Append(trace, Event("load_from_config",
                             "load_and_validate_environment", project_dir,
                             IF r.ok THEN "ok" ELSE "err", << >>))
             /\ IF ~r.ok
                THEN Fail("Failed to read env file", << >>)
                ELSE IF missing # << >>
                THEN Fail("Missing required environment variables",
                          MissingMessage(missing))
                ELSE /\ pc' = "setup"
                     /\ UNCHANGED <<outcome, error>>
    /\ UNCHANGED <<config, penv, cwd, dirs, disk, ctx, text, result,
                   forge_cmd, extra_args, printed, cli_args, required>>

\* setup_project (deployer.rs:171-208)
SetupProject ==
    /\ pc = "setup"
    /\ LET setup_parts == SplitWhitespace(config.project.setup_command)
           project_dir == Unwrap(ctx).working_directory
       IN IF setup_parts = << >>
          THEN /\ pc' = "resolve"
               /\ UNCHANGED <<trace, outcome, error>>
          ELSE \E status \in SpawnOutcomes :
                  /\ trace' = Append(trace, Event("spawn", "setup_project",
                                  project_dir, status, setup_parts))
                  /\ IF status = "spawn_err"
                     THEN Fail("Failed to run setup command", << >>)
                     ELSE IF status = "wait_err"
                     THEN Fail("Failed to wait for setup command completion",
                               << >>)
                     ELSE IF StatusSuccess(status)
                     THEN /\ pc' = "resolve"
                          /\ UNCHANGED <<outcome, error>>
                     ELSE Fail("Setup command execution failed", << >>)
    /\ UNCHANGED <<config, penv, cwd, dirs, disk, vars, ctx, text, result,
                   forge_cmd, extra_args, printed, cli_args, required>>

\* deploy_contract: the network lookup and the call of expand_variables
\* on its rpc_url (deployer.rs:210-221)
ResolveNetwork ==
    /\ pc = "resolve"
    /\ LET network_config == GetNetwork(config, config.project.network)
       IN IF IsNone(network_config)
          THEN /\ trace' = Append(trace, Event("get_network",
                               "deploy_contract", << >>, "err",
                               <<config.project.network>>))
               /\ Fail("Network not found in configuration",
                       NetworkNotFoundMessage(config.project.network))
               /\ UNCHANGED <<text, result>>
          ELSE /\ trace' = Append(trace, Event("get_network",
                               "deploy_contract", << >>, "ok",
                               <<config.project.network>>))
               /\ text' = Unwrap(network_config).rpc_url
               /\ result' = Unwrap(network_config).rpc_url
               /\ pc' = "expand"
               /\ UNCHANGED <<outcome, error>>
    /\ UNCHANGED <<config, penv, cwd, dirs, disk, vars, ctx, forge_cmd,
                   extra_args, printed, cli_args, required>>

\* deploy_contract from the expanded rpc_url to the echoed command
\* (deployer.rs:222-248): display_deployment_info, build_forge_command,
\* current_dir, envs, display_command_info
BuildForgeCommand ==
    /\ pc = "expanded"
    /\ IsSome(ctx)
    /\ LET network_config == Unwrap(GetNetwork(config, config.project.network))
           expanded_network_config ==
               [chain_id |-> network_config.chain_id, rpc_url |-> result,
                verify |-> network_config.verify]
           script_name == GetScriptName(config)
           args == BuildForgeArgs(config, vars, expanded_network_config,
                                  script_name, extra_args)
       IN /\ \E order \in Orders(DisplayedKeys(vars)) :
                printed' = printed
                    \o DisplayDeploymentInfo(config, vars,
                                             expanded_network_config, order)
                    \o DisplayCommandInfo(config, vars,
                                          expanded_network_config, script_name)
          /\ forge_cmd' = Some([program |-> Forge, args |-> args,
                                current_dir |-> Unwrap(ctx).working_directory,
                                envs |-> vars])
          /\ trace' = Append(trace, Event("build_forge_command",
                                  "deploy_contract", << >>, "ok", args))
    /\ pc' = "confirm"
    /\ UNCHANGED <<config, penv, cwd, dirs, disk, vars, ctx, outcome, error,
                   text, result, extra_args, cli_args, required>>

\* confirm_execution and the branch on it (deployer.rs:250-254, 346-355)
ConfirmExecution ==
    /\ pc = "confirm"
    /\ \/ /\ trace' = Append(trace, Event("read_line", "confirm_execution",
                                          << >>, "flush_err", << >>))
          /\ Fail("stdout flush failed", << >>)
       \/ /\ trace' = Append(trace, Event("read_line", "confirm_execution",
                                          << >>, "err", << >>))
          /\ Fail("stdin read failed", << >>)
       \/ \E input \in ResponseLines :
             /\ trace' = Append(trace, Event("read_line", "confirm_execution",
                                             << >>, "ok", <<input>>))
             /\ pc' = IF ConfirmAccepts(input) THEN "execute" ELSE "cleanup"
             /\ UNCHANGED <<outcome, error>>
    /\ UNCHANGED <<config, penv, cwd, dirs, disk, vars, ctx, text, result,
                   forge_cmd, extra_args, printed, cli_args, required>>

\* execute_forge_command (deployer.rs:357-382)
ExecuteForgeCommand ==
    /\ pc = "execute"
    /\ \E status \in SpawnOutcomes :
          /\ trace' = Append(trace, Event("spawn", "execute_forge_command",
                                 Unwrap(forge_cmd).current_dir, status,
                                 <<Unwrap(forge_cmd).program>>
                                 \o Unwrap(forge_cmd).args))
          /\ IF status = "spawn_err"
             THEN Fail("Failed to start forge script", << >>)
             ELSE IF status = "wait_err"
             THEN Fail("Failed to wait for forge script completion", << >>)
             ELSE IF StatusSuccess(status)
             THEN /\ pc' = "cleanup"
                  /\ UNCHANGED <<outcome, error>>
             ELSE Fail("Script execution failed", << >>)
    /\ UNCHANGED <<config, penv, cwd, dirs, disk, vars, ctx, text, result,
                   forge_cmd, extra_args, printed, cli_args, required>>

\* the end of deploy() after the workflow returned Ok: cleanup of the
\* recorded path, if any (deployer.rs:40-45, 148-156)
Cleanup ==
    /\ pc = "cleanup"
    /\ LET cleanup_path == Unwrap(ctx).cleanup_path
       IN IF IsNone(cleanup_path)
          THEN /\ pc' = "done"
               /\ outcome' = "Succeeded"
               /\ UNCHANGED <<dirs, trace, error>>
          ELSE \/ /\ trace' = Append(trace, Event("remove_dir_all", "cleanup",
                                         Unwrap(cleanup_path), "ok", << >>))
                  /\ dirs' = dirs \ {Unwrap(cleanup_path)}
                  /\ pc' = "done"
                  /\ outcome' = "Succeeded"
                  /\ UNCHANGED error
               \/ /\ trace' = Append(trace, Event("remove_dir_all", "cleanup",
                                         Unwrap(cleanup_path), "err", << >>))
                  /\ Fail("Failed to cleanup temporary directory", << >>)
                  /\ UNCHANGED dirs
    /\ UNCHANGED <<config, penv, cwd, disk, vars, ctx, text, result,
                   forge_cmd, extra_args, printed, cli_args, required>>

Next ==
    \/ PrepareNoRepo
    \/ CloneRepoRemoveExisting
    \/ CloneRepoFetch
    \/ LoadAndValidateEnvironment
    \/ SetupProject
    \/ ResolveNetwork
    \/ ExpandStep
    \/ ExpandReturn
    \/ BuildForgeCommand
    \/ ConfirmExecution
    \/ ExecuteForgeCommand
    \/ Cleanup

Spec == Init /\ [][Next]_allvars

(***************************************************************************)
(* Claims about the run, under Spec.                                       *)
(***************************************************************************)
\* the positions of the trace holding an operation made in a function
Made(op, at) == {i \in DOMAIN trace : trace[i].op = op /\ trace[i].at = at}

Removals == {i \in DOMAIN trace : trace[i].op = "remove_dir_all"}
Spawns == {i \in DOMAIN trace : trace[i].op = "spawn"}
Clones == Made("clone", "clone_repo")
Reads == {i \in Made("read_line", "confirm_execution") :
             trace[i].status = "ok"}

\* the execution collaborator was invoked on the deployment command
Executed == Made("spawn", "execute_forge_command") # {}

Ended == pc = "done"

\* C1: when a cleanup path was recorded, removal of that directory is
\* attempted exactly once before the run ends, whether it ends Succeeded
\* or Failed at a later stage.
C1_CleanupExactlyOnce ==
    (Ended /\ IsSome(ctx) /\ IsSome(Unwrap(ctx).cleanup_path))
    => Cardinality({i \in Made("remove_dir_all", "cleanup") :
                       trace[i].path = Unwrap(Unwrap(ctx).cleanup_path)}) = 1

\* the environment was loaded without error
LoadSucceeded ==
    \E i \in Made("load_from_config", "load_and_validate_environment") :
        trace[i].status = "ok"

LoadFailed ==
    \E i \in Made("load_from_config", "load_and_validate_environment") :
        trace[i].status = "err"

RequiredPresent ==
    \A k \in {KEYSTORE_ACCOUNT, KEYSTORE_PASSWORD, BROADCAST_ACCOUNT} :
        k \in DOMAIN vars

\* C2: a subprocess is launched only after the environment was loaded and
\* holds every required name; a failed load or a missing required name ends
\* the run Failed without any subprocess launched.
C2_NoSubprocessBeforeValidation ==
    /\ (Spawns # {} \/ pc \in {"setup", "execute"})
          => (LoadSucceeded /\ RequiredPresent)
    /\ (LoadFailed \/ (LoadSucceeded /\ ~RequiredPresent))
          => (Ended /\ outcome = "Failed" /\ Spawns = {})

\* a run that launched the setup command and the deployment command
C2_Witness ==
    /\ Ended
    /\ Made("spawn", "setup_project") # {}
    /\ Executed

\* "y" and "yes" in every mix of cases
YesAnswers ==
    {<<a>> : a \in {"y", "Y"}} \cup
    {<<a, b, c>> : a \in {"y", "Y"}, b \in {"e", "E"}, c \in {"s", "S"}}

\* the response as typed: the line without its line terminator
StripEol(line) == TrimEndIn(line, {"\n", "\r"})

\* the response is "y" or "yes" between any whitespace
AcceptedPadded(line) ==
    \E i, j \in 1..Len(line) :
        /\ SubSeq(line, i, j) \in YesAnswers
        /\ \A n \in 1..Len(line) :
              (n < i \/ n > j) => line[n] \in Whitespace

\* the run ended without error, or with the failure of its final removal
EndedCleanOrCleanupFailed ==
    \/ outcome = "Succeeded"
    \/ /\ trace # << >>
       /\ trace[Len(trace)].op = "remove_dir_all"
       /\ trace[Len(trace)].at = "cleanup"
       /\ trace[Len(trace)].status = "err"

\* C3 as stated: the deployment command is executed exactly when the
\* response is "y" or "yes" without regard to case, and any other response
\* ends the run Succeeded with nothing executed.
C3_ConfirmAsStated ==
    \A i \in Reads :
        LET yes == StripEol(trace[i].arg[1]) \in YesAnswers
        IN Ended => /\ Executed <=> yes
                    /\ ~yes => (outcome = "Succeeded" /\ ~Executed)

\* C3 amended: the deployment command is executed exactly when the
\* response, with surrounding whitespace ignored, is "y" or "yes" without
\* regard to case; any other response executes nothing and ends the run
\* Succeeded unless the removal of the recorded cleanup path fails.
C3_Confirm ==
    /\ Executed => \E i \in Reads : AcceptedPadded(trace[i].arg[1])
    /\ \A i \in Reads :
          LET yes == AcceptedPadded(trace[i].arg[1])
          IN /\ ~yes => ~Executed
             /\ Ended => /\ Executed <=> yes
                         /\ ~yes => EndedCleanOrCleanupFailed

\* a padded, mixed-case "yes" that led to the execution
C3_Witness ==
    /\ Ended
    /\ Executed
    /\ \E i \in Reads : trace[i].arg[1] = <<" ", "y", "E", "s", " ", "\n">>

\* the setup command ran and did not end with status 0
SetupFailed ==
    \E i \in Made("spawn", "setup_project") :
        trace[i].status \in {"exit1", "signal"}

\* C4: when the setup command ends with a nonzero status the run ends
\* Failed, and no network is resolved, no command built, no confirmation
\* asked and nothing executed.
C4_SetupFailureStops ==
    SetupFailed =>
        /\ Ended
        /\ outcome = "Failed"
        /\ Made("get_network", "deploy_contract") = {}
        /\ Made("build_forge_command", "deploy_contract") = {}
        /\ Made("read_line", "confirm_execution") = {}
        /\ ~Executed
        /\ IsNone(forge_cmd)
        /\ printed = << >>

C4_Witness ==
    /\ SetupFailed
    /\ Ended
    /\ \E i \in Made("spawn", "setup_project") : trace[i].status = "exit1"

\* C5: without a source repository nothing is cloned, the working
\* directory is the current process directory, no cleanup path is recorded
\* and no directory is removed.
C5_NoRepoNoCleanup ==
    IsNone(config.project.repo) =>
        /\ Clones = {}
        /\ Removals = {}
        /\ IsSome(ctx) => /\ Unwrap(ctx).working_directory = cwd
                          /\ IsNone(Unwrap(ctx).cleanup_path)
        /\ \A i \in Spawns : trace[i].path = cwd

\* a run without repository that executed the deployment and ended
C5_Witness ==
    /\ IsNone(config.project.repo)
    /\ Ended
    /\ outcome = "Succeeded"
    /\ Executed

\* <basePath-or-default>/<projectName> of the drawn configurations
ExpectedTarget ==
    (IF IsSome(config.project.path) THEN PlainPath ELSE DefaultBasePath)
    \o <<"/">> \o config.project.name

\* C6: the fetch goes into <basePath-or-default>/<projectName> and never
\* into a directory that exists: what was there is removed first, and when
\* that removal fails the run ends without a fetch.
C6_RemoveBeforeFetch ==
    /\ pc = "clone" => ExpectedTarget \notin dirs
    /\ \A i \in Clones : /\ ~trace[i].pre
                         /\ trace[i].path = ExpectedTarget
    /\ \A i \in Made("remove_dir_all", "clone_repo") :
          /\ trace[i].path = ExpectedTarget
          /\ trace[i].pre
          /\ \A j \in Clones : i < j
          /\ trace[i].status = "err"
                => (Ended /\ outcome = "Failed" /\ Clones = {})

\* a fetch made after the directory that was in its place was removed
C6_Witness ==
    /\ Clones # {}
    /\ \E i \in Made("remove_dir_all", "clone_repo") : trace[i].status = "ok"

\* the workflow of the run returned without error: the deployment exited
\* with status 0, or the confirmation was declined
WorkflowSucceeded ==
    \/ \E i \in Made("spawn", "execute_forge_command") :
          trace[i].status = "exit0"
    \/ \E i \in Reads : ~AcceptedPadded(trace[i].arg[1])

\* C7: with a source repository, once the workflow succeeded the run ends
\* by one removal of the directory that was its clone target and working
\* directory, no other path is ever removed, and a cleanup path is only
\* recorded after a successful clone of that path.
C7_CleanupOfCloneTarget ==
    /\ (Ended /\ IsSome(config.project.repo) /\ WorkflowSucceeded)
          => /\ Cardinality(Made("remove_dir_all", "cleanup")) = 1
             /\ Made("remove_dir_all", "cleanup") = {Len(trace)}
             /\ \E j \in Clones :
                   /\ trace[j].status = "ok"
                   /\ trace[j].path = trace[Len(trace)].path
             /\ trace[Len(trace)].path = Unwrap(ctx).working_directory
    /\ \A i \in Removals : trace[i].path = ExpectedTarget
    /\ (IsSome(ctx) /\ IsSome(Unwrap(ctx).cleanup_path))
          => \E j \in Clones :
                /\ trace[j].status = "ok"
                /\ trace[j].path = Unwrap(Unwrap(ctx).cleanup_path)

\* a run on a clone whose deployment exited with status 0
C7_Witness ==
    /\ Ended
    /\ IsSome(config.project.repo)
    /\ outcome = "Succeeded"
    /\ \E i \in Made("spawn", "execute_forge_command") :
          trace[i].status = "exit0"

(***************************************************************************)
(* Environment::validate_required on drawn maps and name lists             *)
(* (environment.rs:90-107).                                                *)
(***************************************************************************)
MaxRequired == 3    \* longest list of required names drawn

ValidateNames == {KEYSTORE_ACCOUNT, KEYSTORE_PASSWORD, BROADCAST_ACCOUNT}

ValidateMaps == UNION { [d -> {ValOther}] : d \in SUBSET ValidateNames }

RequiredLists == UNION { [1..n -> ValidateNames] : n \in 0..MaxRequired }

InitValidate ==
    /\ config = DefaultConfig
    /\ penv = EmptyMap
    /\ cwd = ProcessDir
    /\ dirs = {}
    /\ disk = EmptyMap
    /\ vars \in ValidateMaps
    /\ required \in RequiredLists
    /\ ctx = None
    /\ outcome = "running"
    /\ error = NoError
    /\ trace = << >>
    /\ forge_cmd = None
    /\ extra_args = << >>
    /\ cli_args = NoArgs
    /\ printed = << >>
    /\ text = << >>
    /\ result = << >>
    /\ pc = "validate"

\* env.validate_required(required_vars): Ok(()) or the bail of line 100
ValidateRequiredCall ==
    /\ pc = "validate"
    /\ LET missing == ValidateRequired(vars, required)
       IN error' = IF missing = << >> THEN NoError
                   ELSE [msg |-> "Missing required environment variables",
                         arg |-> MissingMessage(missing)]
    /\ pc' = "validated"
    /\ UNCHANGED <<config, penv, cwd, dirs, disk, vars, ctx, outcome, trace,
                   text, result, forge_cmd, extra_args, printed, cli_args,
                   required>>

NextValidate == ValidateRequiredCall

SpecValidate == InitValidate /\ [][NextValidate]_allvars

\* the names of a list that are not keys of the map, in the list's order
RECURSIVE Absent(_)
Absent(names) ==
    IF names = << >> THEN << >>
    ELSE (IF Head(names) \in DOMAIN vars THEN << >> ELSE <<Head(names)>>)
         \o Absent(Tail(names))

ValidateSucceeded == pc = "validated" /\ error = NoError
ValidateFailed == pc = "validated" /\ error # NoError

\* C11: validate_required succeeds exactly when every name of the list is
\* a key of the map; when it fails, the list it reports is the names of the
\* list that are absent: all of them, in the order given, joined by ", ",
\* and no name that is present; the call leaves the map as it was.
C11_ValidateReportsAllMissing ==
    [][pc' = "validated" =>
        /\ vars' = vars
        /\ error' = NoError <=>
              \A i \in 1..Len(required) : required[i] \in DOMAIN vars
        /\ error' # NoError =>
              error'.arg = MissingPrefix \o Join(Absent(required), CommaSpace)
      ]_allvars

\* a failed call on a list with a present name between two absent ones
C11_Witness ==
    /\ ValidateFailed
    /\ Len(required) = 3
    /\ required[1] \notin DOMAIN vars
    /\ required[2] \in DOMAIN vars
    /\ required[3] \notin DOMAIN vars
    /\ required[1] # required[3]

\* the network a run selects: the one named on the command line, else the
\* configured one
SelectedNetwork ==
    IF IsSome(cli_args.network) THEN Unwrap(cli_args.network)
    ELSE config.project.network

NetworkUnconfigured == SelectedNetwork \notin DOMAIN config.networks

C13_ApiKeyNeverPrinted ==
    \A k \in DOMAIN vars :
        (Contains(k, API_KEY) /\ vars[k] # EmptyStr) =>
            \A i \in DOMAIN printed : ~Contains(printed[i].value, vars[k])

\* C14: with --skip-confirmation the prompt is bypassed: standard input is
\* never read, and a run that built its command goes on to execute it.
C14_SkipConfirmationBypassesPrompt ==
    cli_args.skip_confirmation =>
        /\ Made("read_line", "confirm_execution") = {}
        /\ (IsSome(forge_cmd) /\ pc \notin {"confirm", "execute"}) => Executed

\* the argument that follows `flag` in the built command, if any
ArgAfter(flag) ==
    LET a == Unwrap(forge_cmd).args
        at == {i \in 1..(Len(a) - 1) : a[i] = flag}
    IN {a[i + 1] : i \in at}

\* C15: a network named on the command line is the one resolved and passed
\* to the deployment command, and a script named on the command line is
\* the one whose path is passed, in place of the configured values.
C15_OverridesTakeEffect ==
    /\ IsSome(cli_args.network) =>
          /\ \A i \in Made("get_network", "deploy_contract") :
                trace[i].arg = <<Unwrap(cli_args.network)>>
          /\ IsSome(forge_cmd) =>
                ArgAfter(ArgRpcUrl) = {Unwrap(cli_args.network)}
    /\ (IsSome(cli_args.script) /\ IsSome(forge_cmd)) =>
          ArgAfter(ArgScript) =
              {ScriptDir \o Unwrap(cli_args.script) \o ScriptSuffix}

\* the deployment command ran and ended otherwise than with status 0
ExecutionFailed ==
    \E i \in Made("spawn", "execute_forge_command") :
        trace[i].status # "exit0"

\* C16: a run ends Succeeded only if the deployment command was executed
\* and exited with status 0, or the user declined at the prompt; a
\* deployment command that did not exit with status 0, and every other
\* failed step, ends the run Failed.
C16_SucceededOnlyAfterExecution ==
    /\ outcome \in {"running", "Succeeded", "Failed"}
    /\ Ended <=> outcome # "running"
    /\ outcome = "Succeeded" => WorkflowSucceeded
    /\ ExecutionFailed => (Ended /\ outcome = "Failed")
    /\ \A i \in DOMAIN trace :
          trace[i].status \notin {"ok", "exit0"}
              => (Ended /\ outcome = "Failed")

\* a deployment command that exited with a nonzero status
C16_Witness ==
    /\ Ended
    /\ outcome = "Failed"
    /\ \E i \in Made("spawn", "execute_forge_command") :
          trace[i].status = "exit1"

\* a stage before the cleanup failed
StageFailed ==
    \/ \E i \in DOMAIN trace :
          trace[i].at # "cleanup" /\ trace[i].status \notin {"ok", "exit0"}
    \/ LoadSucceeded /\ ~RequiredPresent

\* C17: when a stage failed in a run that recorded a cleanup path, the
\* removal of that path is still attempted, so that its failure can be
\* reported, and whatever the removal's outcome the error the run reports
\* is the failed stage's error, never the cleanup's.
C17_EarlierErrorSurvivesCleanup ==
    (Ended /\ StageFailed /\ IsSome(ctx) /\ IsSome(Unwrap(ctx).cleanup_path))
    => /\ \E i \in Made("remove_dir_all", "cleanup") :
             trace[i].path = Unwrap(Unwrap(ctx).cleanup_path)
       /\ outcome = "Failed"
       /\ error.msg \notin {"", "Failed to cleanup temporary directory"}

\* the place of a side effect in the order of the stages
StageRank(e) ==
    CASE e.op = "remove_dir_all" /\ e.at = "clone_repo" -> 1
      [] e.op = "clone" -> 2
      [] e.op = "load_from_config" -> 3
      [] e.op = "spawn" /\ e.at = "setup_project" -> 4
      [] e.op = "get_network" -> 5
      [] e.op = "build_forge_command" -> 6
      [] e.op = "read_line" -> 7
      [] e.op = "spawn" /\ e.at = "execute_forge_command" -> 8
      [] e.op = "remove_dir_all" /\ e.at = "cleanup" -> 9

\* the errors a stage can end the run with
StageErrors(rank) ==
    CASE rank = 1 -> {"Failed to remove existing directory"}
      [] rank = 2 -> {"Failed to clone repository"}
      [] rank = 3 -> {"Failed to read env file",
                      "Missing required environment variables"}
      [] rank = 4 -> {"Failed to run setup command",
                      "Failed to wait for setup command completion",
                      "Setup command execution failed"}
      [] rank = 5 -> {"Network not found in configuration"}
      [] rank = 6 -> {}
      [] rank = 7 -> {"stdout flush failed", "stdin read failed"}
      [] rank = 8 -> {"Failed to start forge script",
                      "Failed to wait for forge script completion",
                      "Script execution failed"}
      [] rank = 9 -> {"Failed to cleanup temporary directory"}

\* the stage of a side effect succeeded (for the load: with validation)
StageSucceeded(e) ==
    /\ e.status \in {"ok", "exit0"}
    /\ e.op = "load_from_config" => RequiredPresent

\* C18: the side effects of a run follow the order clone, environment
\* load and validation, setup, network resolution, command building,
\* confirmation, execution, cleanup, each stage at most once; a stage is
\* only started after every earlier one succeeded; a failed run reports
\* the error of the one stage that failed, which is the last one started;
\* no subprocess is launched after the cleanup removal.
C18_StagesInOrder ==
    /\ \A i, j \in DOMAIN trace :
          i < j => /\ StageRank(trace[i]) < StageRank(trace[j])
                   /\ StageSucceeded(trace[i])
    /\ \A i \in Made("remove_dir_all", "cleanup"), j \in Spawns : j < i
    /\ (trace # << >> /\ ~StageSucceeded(trace[Len(trace)]))
          => (Ended /\ outcome = "Failed")
    /\ outcome = "Failed" =>
          IF trace = << >> THEN error.msg = "Failed to get current directory"
          ELSE /\ ~StageSucceeded(trace[Len(trace)])
               /\ error.msg \in StageErrors(StageRank(trace[Len(trace)]))

\* a run through every stage: clone over an existing directory, load,
\* setup command, resolution, command, confirmation, execution, cleanup
C18_Witness ==
    /\ Ended
    /\ Len(trace) = 9
    /\ trace[9].op = "remove_dir_all"
    /\ trace[9].at = "cleanup"
    /\ trace[4].op = "spawn"
    /\ trace[8].op = "spawn"

(***************************************************************************)
(* build_forge_command on drawn environments, networks and pass-through    *)
(* arguments (deployer.rs:262-305), entered as deploy_contract enters it.  *)
(***************************************************************************)
MaxExtraArgs == 2    \* longest list of pass-through arguments drawn

ExtraArgLists ==
    UNION { [1..n -> {ExtraLegacy, ExtraVerbose}] : n \in 0..MaxExtraArgs }

BuildConfigs ==
    { [DefaultConfig EXCEPT !.networks = networks, !.project.script = script] :
        networks \in NetworkTables, script \in {<<"D">>, <<"S">>} }

BuildMaps ==
    { Restrict(Credentials, d) :
        d \in SUBSET {KEYSTORE_ACCOUNT, KEYSTORE_PASSWORD, BROADCAST_ACCOUNT} }

InitBuild ==
    /\ config \in BuildConfigs
    /\ penv = EmptyMap
    /\ cwd = ProcessDir
    /\ dirs = {ProcessDir}
    /\ disk = EmptyMap
    /\ vars \in BuildMaps
    /\ required = << >>
    /\ ctx = Some(NoRepoContext(cwd))
    /\ outcome = "running"
    /\ error = NoError
    /\ trace = << >>
    /\ forge_cmd = None
    /\ extra_args \in ExtraArgLists
    /\ cli_args = NoArgs
    /\ printed = << >>
    /\ text = Unwrap(GetNetwork(config, config.project.network)).rpc_url
    /\ result = RpcPlain
    /\ pc = "expanded"

NextBuild == BuildForgeCommand

SpecBuild == InitBuild /\ [][NextBuild]_allvars

\* the arguments of the built command
BuiltArgs == Unwrap(forge_cmd).args

Passed(flag) == \E i \in DOMAIN BuiltArgs : BuiltArgs[i] = flag

\* the decimal text of the chain ids of the drawn networks
ChainIdText(chain_id) ==
    CASE chain_id = 1 -> <<"1">>
      [] chain_id = 11155111 -> <<"1", "1", "1", "5", "5", "1", "1", "1">>

\* a credential flag is passed exactly when its variable is defined, and
\* then followed by the variable's value
CredentialPassed(name, flag) ==
    IF name \in DOMAIN vars THEN ArgAfter(flag) = {vars[name]}
    ELSE ~Passed(flag)

\* C19: the built command holds the script path made from the script
\* identifier, the chain id, the network's name (not its endpoint) as the
\* --rpc-url argument and the broadcast flag; --verify exactly when the
\* network asks for verification; --account, --password and --sender
\* exactly when KEYSTORE_ACCOUNT, KEYSTORE_PASSWORD and BROADCAST_ACCOUNT
\* are defined, each followed by that value; and the pass-through
\* arguments, unchanged and in order, as its last arguments.
C19_CommandArguments ==
    IsSome(forge_cmd) =>
        LET network_config ==
                Unwrap(GetNetwork(config, config.project.network))
        IN /\ ArgAfter(ArgScript) =
                 {ScriptDir \o config.project.script \o ScriptSuffix}
           /\ ArgAfter(ArgChainId) = {ChainIdText(network_config.chain_id)}
           /\ ArgAfter(ArgRpcUrl) = {config.project.network}
           /\ config.project.network \notin {text, result}
           /\ Passed(ArgBroadcast)
           /\ Passed(ArgVerify) <=> network_config.verify
           /\ CredentialPassed(KEYSTORE_ACCOUNT, ArgAccount)
           /\ CredentialPassed(KEYSTORE_PASSWORD, ArgPassword)
           /\ CredentialPassed(BROADCAST_ACCOUNT, ArgSender)
           /\ Len(BuiltArgs) >= Len(extra_args)
           /\ SubSeq(BuiltArgs, Len(BuiltArgs) - Len(extra_args) + 1,
                     Len(BuiltArgs)) = extra_args

\* a command for a verifying network, with the account alone defined and
\* two different pass-through arguments
C19_Witness ==
    /\ IsSome(forge_cmd)
    /\ DOMAIN vars = {KEYSTORE_ACCOUNT}
    /\ Unwrap(GetNetwork(config, config.project.network)).verify
    /\ Len(extra_args) = 2
    /\ extra_args[1] # extra_args[2]

\* the setup command line is empty or holds whitespace only
BlankSetup ==
    \A i \in DOMAIN config.project.setup_command :
        config.project.setup_command[i] \in Whitespace

\* C20: when the setup command line is empty or whitespace only, no setup
\* subprocess is launched, the setup stage counts as succeeded, and a run
\* whose environment was loaded and validated goes on to the network
\* resolution.
C20_BlankSetupSkipped ==
    BlankSetup =>
        /\ Made("spawn", "setup_project") = {}
        /\ error.msg \notin StageErrors(4)
        /\ (LoadSucceeded /\ RequiredPresent) =>
              \/ pc \in {"setup", "resolve"}
              \/ Made("get_network", "deploy_contract") # {}

\* a run with a whitespace-only setup command that resolved its network
C20_Witness ==
    /\ config.project.setup_command = SetupBlank
    /\ Spawns = {}
    /\ \E i \in Made("get_network", "deploy_contract") :
          trace[i].status = "ok"

\* what is on disk at the resolved path of the i-th listed file
Listed(i) == OnDisk(disk, PathJoin(cwd, config.env.load_files[i]))

UnreadableListed ==
    {i \in DOMAIN config.env.load_files : Listed(i).kind = "unreadable"}

MissingListed ==
    {i \in DOMAIN config.env.load_files : Listed(i).kind = "missing"}

\* the listed files the load reads: all of them, or those before the first
\* that cannot be read
ReadBeforeFailure ==
    {i \in DOMAIN config.env.load_files :
        \A u \in UnreadableListed : i < u}

\* C21: a listed environment file that does not exist is skipped: the load
\* does not fail on it, it contributes no key, and the files after it, the
\* inline table and the process environment are still applied; a listed
\* file that exists but cannot be read makes the load fail, and then
\* nothing listed after it, nor the inline table, nor the process
\* environment is applied.
C21_MissingSkippedUnreadableFatal ==
    /\ pc = "load_failed" <=> (pc # "load" /\ UnreadableListed # {})
    /\ pc = "loaded" <=> (pc # "load" /\ UnreadableListed = {})
    /\ pc = "loaded" =>
          /\ DOMAIN vars = UNION {DOMAIN Sources[i] : i \in DOMAIN Sources}
          /\ \A i \in MissingListed : Sources[i] = EmptyMap
    /\ pc = "load_failed" =>
          /\ DOMAIN vars = UNION {DOMAIN Sources[i] : i \in ReadBeforeFailure}
          /\ \A k \in DOMAIN vars :
                \E i \in ReadBeforeFailure :
                    /\ k \in DOMAIN Sources[i]
                    /\ vars[k] = Sources[i][k]
                    /\ \A j \in ReadBeforeFailure :
                          k \in DOMAIN Sources[j] => j <= i

\* a load that passed over a missing first file, failed on an unreadable
\* second one and left the inline table and the process environment out
C21_Witness ==
    /\ pc = "load_failed"
    /\ Len(config.env.load_files) = 2
    /\ Listed(1).kind = "missing"
    /\ Listed(2).kind = "unreadable"
    /\ IsSome(config.env.additional_vars)
    /\ penv # EmptyMap
    /\ vars = EmptyMap

\* the working directory context preparation determines: the clone target
\* with a source repository, the current process directory without
ExpectedWorkingDirectory ==
    IF IsSome(config.project.repo) THEN ExpectedTarget ELSE cwd

\* the setup and the deployment subprocess run in the working directory
SubprocessesInWorkingDirectory ==
    \A i \in Spawns : trace[i].path = ExpectedWorkingDirectory

\* C22: the environment files are resolved relative to the working
\* directory determined in context preparation, and the setup subprocess
\* and the deployment subprocess run in that same directory.
C22_FilesResolvedInWorkingDirectory ==
    /\ \A i \in Made("load_from_config", "load_and_validate_environment") :
          trace[i].path = ExpectedWorkingDirectory
    /\ SubprocessesInWorkingDirectory

\* an iteration of the loop would leave `result` as it found it
ExpandStuck ==
    /\ pc = "expand"
    /\ ExpandContinues(result)
    /\ ExpandReplace(result, vars) = result

\* C23: expand_variables terminates for every template and every map,
\* also when a value refers to itself or the template has an unclosed
\* "${": the loop never reaches a `result` that holds a closed "${...}"
\* and that its iteration leaves unchanged, from where it would iterate
\* without end.
C23_ExpandTerminates == ~ExpandStuck

=============================================================================
